---------------------------- MODULE Spec2Model ----------------------------
(***************************************************************************)
(* A model of paddle/platform/enforce.h: the EnforceNotMet exception, the  *)
(* throw_on_error overloads, and the PADDLE_THROW / PADDLE_ENFORCE /       *)
(* PADDLE_ENFORCE_xx macros.                                               *)
(*                                                                         *)
(* The header keeps no state of its own.  The state of the model is the    *)
(* last macro invocation: its arguments, the state of the caller that the  *)
(* arguments read (a counter behind an operand expression with a side      *)
(* effect, the depth of the call stack), and what the invocation did.      *)
(*                                                                         *)
(* A text is a sequence of tokens (strings); the empty text is << >>.      *)
(***************************************************************************)
EXTENDS Integers, Sequences, FiniteSets, TLC

VARIABLES
    macro,      \* the macro last expanded ("none" before the first call)
    stat,       \* its first argument, when it is a condition or a status
    extra,      \* the caller's format and arguments (present or not)
    argExc,     \* what evaluating the caller's arguments raised (NoExc: nothing)
    lhs, rhs,   \* the operands of a comparison macro
    depth,      \* depth of the call stack at the call site
    line,       \* __LINE__ of the call site
    counter,    \* caller's state behind the operand expression next()
    evals,      \* the evaluations of the comparison operands
    inner,      \* the exception raised inside the try block (NoExc: none)
    outcome,    \* "returned" or "raised"
    leaving,    \* the type of the exception that leaves the macro
    err_str_    \* EnforceNotMet::err_str_ of the exception that leaves

vars == << macro, stat, extra, argExc, lhs, rhs, depth, line, counter, evals,
           inner, outcome, leaving, err_str_ >>

-----------------------------------------------------------------------------
(* Bounds of the model *)

\* integer arguments of the caller's format are drawn from 0..MaxArg
MaxArg == 1
\* call sites are on lines 1..MaxLine
MaxLine == 2
\* shallow stacks have 1..MaxShallow frames
MaxShallow == 2
\* deep stacks have up to TRACE_STACK_LIMIT + MaxOver frames
MaxOver == 1
\* operand values near zero are drawn from -MaxSmall..MaxSmall
MaxSmall == 1
\* the caller's counter stays within 0..MaxCounter
MaxCounter == 4

-----------------------------------------------------------------------------
(* Texts and paddle::string::Sprintf *)

Min(a, b) == IF a < b THEN a ELSE b

Directives == {"%s", "%d"}

IntArg(n) == [k |-> "int", n |-> n, s |-> << >>]
StrArg(s) == [k |-> "str", n |-> 0, s |-> s]

\* std::to_string of an integer: its decimal digits
to_string(n) == << ToString(n) >>

\* the text an argument is rendered as by a directive
Render(a) == IF a.k = "int" THEN to_string(a.n) ELSE a.s

\* Sprintf(fmt, args...): the format with each directive replaced, in order,
\* by the next argument; an argument's text is not scanned again
RECURSIVE Sprintf(_, _)
Sprintf(fmt, args) ==
    IF fmt = << >> THEN << >>
    ELSE IF Head(fmt) \in Directives /\ args # << >>
         THEN Render(Head(args)) \o Sprintf(Tail(fmt), Tail(args))
         ELSE << Head(fmt) >> \o Sprintf(Tail(fmt), args)

-----------------------------------------------------------------------------
(* Exceptions *)

NoExc == [type |-> "none", std |-> FALSE, what |-> << >>]

\* std::runtime_error(s): what() is s
runtime_error(s) == [type |-> "std::runtime_error", std |-> TRUE, what |-> s]

\* the driver's description of an error code (cuda_category().message(e))
cuda_message(e) ==
    CASE e = "cudaErrorMemoryAllocation" -> << "out of memory" >>
      [] e = "cudaErrorLaunchFailure"     -> << "unspecified launch failure" >>
      [] OTHER                            -> << "unknown error" >>

\* thrust::system_error(e, cuda_category(), s): derives from
\* std::runtime_error; what() is s, ": " when s is not empty, and the
\* category's message for e
system_error(e, s) ==
    [type |-> "thrust::system_error", std |-> TRUE,
     what |-> s \o (IF s = << >> THEN << >> ELSE << ": " >>) \o cuda_message(e)]

\* an exception raised by the evaluation of a caller's argument: one that
\* derives from std::exception, and one that does not (throw 42)
ArgStdExc == [type |-> "std::out_of_range", std |-> TRUE, what |-> << "at" >>]
ArgNonStdExc == [type |-> "int", std |-> FALSE, what |-> << >>]
ArgOutcomes == {NoExc, ArgStdExc, ArgNonStdExc}

-----------------------------------------------------------------------------
(* Conditions and statuses *)

\* A condition of boolean or integral type.  An int64_t value is kept as
\* the pair (q, r) that stands for q * 2^32 + r, with r small, so that its
\* conversion to a 32-bit int is r; a bool or an int has q = 0.
Cond(t, q, r) == [family |-> "int", type |-> t, q |-> q, r |-> r, code |-> "none"]
Status(fam, c) == [family |-> fam, type |-> fam, q |-> 0, r |-> 0, code |-> c]

\* the mathematical value of a condition is not zero
IsNonZero(c) == c.q # 0 \/ c.r # 0

\* the conversion of a condition to the parameter "int stat": the low 32
\* bits of the value (true is 1, false is 0)
ToInt(c) == c.r

cudaSuccess == "cudaSuccess"
CudaCodes == {cudaSuccess, "cudaErrorMemoryAllocation", "cudaErrorLaunchFailure"}

CURAND_STATUS_SUCCESS == "CURAND_STATUS_SUCCESS"
CurandCodes == {CURAND_STATUS_SUCCESS, "CURAND_STATUS_ALLOCATION_FAILED",
                "CURAND_STATUS_LAUNCH_FAILURE"}

CUDNN_STATUS_SUCCESS == "CUDNN_STATUS_SUCCESS"
CudnnCodes == {CUDNN_STATUS_SUCCESS, "CUDNN_STATUS_NOT_INITIALIZED",
               "CUDNN_STATUS_BAD_PARAM"}

CUBLAS_STATUS_SUCCESS == "CUBLAS_STATUS_SUCCESS"
CublasRecognized ==
    {"CUBLAS_STATUS_NOT_INITIALIZED", "CUBLAS_STATUS_ALLOC_FAILED",
     "CUBLAS_STATUS_INVALID_VALUE", "CUBLAS_STATUS_ARCH_MISMATCH",
     "CUBLAS_STATUS_MAPPING_ERROR", "CUBLAS_STATUS_EXECUTION_FAILED",
     "CUBLAS_STATUS_INTERNAL_ERROR", "CUBLAS_STATUS_NOT_SUPPORTED",
     "CUBLAS_STATUS_LICENSE_ERROR"}
\* a value of cublasStatus_t that the header does not name
CublasOther == {"CUBLAS_STATUS_OTHER"}
CublasCodes == {CUBLAS_STATUS_SUCCESS} \cup CublasRecognized \cup CublasOther

\* platform::dynload::cudnnGetErrorString(stat): the library's description
cudnnGetErrorString(s) == << s >>

-----------------------------------------------------------------------------
(* throw_on_error: NoExc when the call returns, else the exception raised *)

throw_on_error_int(s, fmt, args) ==
    IF s = 0 THEN runtime_error(Sprintf(fmt, args)) ELSE NoExc

throw_on_error_cuda(e, fmt, args) ==
    IF e # cudaSuccess THEN system_error(e, Sprintf(fmt, args)) ELSE NoExc

throw_on_error_curand(s, fmt, args) ==
    IF s # CURAND_STATUS_SUCCESS
    THEN system_error("cudaErrorLaunchFailure", Sprintf(fmt, args))
    ELSE NoExc

throw_on_error_cudnn(s, fmt, args) ==
    IF s = CUDNN_STATUS_SUCCESS THEN NoExc
    ELSE runtime_error(cudnnGetErrorString(s) \o Sprintf(fmt, args))

\* cublas_err with the branch of CUBLAS_STATUS_ALLOC_FAILED left out
cublas_err_NoAllocBranch(s) ==
    CASE s = "CUBLAS_STATUS_NOT_INITIALIZED"  -> << "CUBLAS: not initialized, " >>
      [] s = "CUBLAS_STATUS_INVALID_VALUE"    -> << "CUBLAS: invalid value, " >>
      [] s = "CUBLAS_STATUS_ARCH_MISMATCH"    -> << "CUBLAS: arch mismatch, " >>
      [] s = "CUBLAS_STATUS_MAPPING_ERROR"    -> << "CUBLAS: mapping error, " >>
      [] s = "CUBLAS_STATUS_EXECUTION_FAILED" -> << "CUBLAS: execution failed, " >>
      [] s = "CUBLAS_STATUS_INTERNAL_ERROR"   -> << "CUBLAS: internal error, " >>
      [] s = "CUBLAS_STATUS_NOT_SUPPORTED"    -> << "CUBLAS: not supported, " >>
      [] s = "CUBLAS_STATUS_LICENSE_ERROR"    -> << "CUBLAS: license error, " >>
      [] OTHER                                -> << >>

\* the local "err" of the cublas overload after the if/else chain
cublas_err(s) ==
    CASE s = "CUBLAS_STATUS_NOT_INITIALIZED"  -> << "CUBLAS: not initialized, " >>
      [] s = "CUBLAS_STATUS_ALLOC_FAILED"     -> << "CUBLAS: alloc failed, " >>
      [] s = "CUBLAS_STATUS_INVALID_VALUE"    -> << "CUBLAS: invalid value, " >>
      [] s = "CUBLAS_STATUS_ARCH_MISMATCH"    -> << "CUBLAS: arch mismatch, " >>
      [] s = "CUBLAS_STATUS_MAPPING_ERROR"    -> << "CUBLAS: mapping error, " >>
      [] s = "CUBLAS_STATUS_EXECUTION_FAILED" -> << "CUBLAS: execution failed, " >>
      [] s = "CUBLAS_STATUS_INTERNAL_ERROR"   -> << "CUBLAS: internal error, " >>
      [] s = "CUBLAS_STATUS_NOT_SUPPORTED"    -> << "CUBLAS: not supported, " >>
      [] s = "CUBLAS_STATUS_LICENSE_ERROR"    -> << "CUBLAS: license error, " >>
      [] OTHER                                -> << >>

\* throw_on_error(cublasStatus_t) with the phrase after the caller's text
throw_on_error_cublas_PhraseLast(s, fmt, args) ==
    IF s = CUBLAS_STATUS_SUCCESS THEN NoExc
    ELSE runtime_error(Sprintf(fmt, args) \o cublas_err(s))

throw_on_error_cublas(s, fmt, args) ==
    IF s = CUBLAS_STATUS_SUCCESS THEN NoExc
    ELSE runtime_error(cublas_err(s) \o Sprintf(fmt, args))

\* overload resolution on the type of the first argument
throw_on_error(st, fmt, args) ==
    CASE st.family = "int"    -> throw_on_error_int(ToInt(st), fmt, args)
      [] st.family = "cuda"   -> throw_on_error_cuda(st.code, fmt, args)
      [] st.family = "curand" -> throw_on_error_curand(st.code, fmt, args)
      [] st.family = "cudnn"  -> throw_on_error_cudnn(st.code, fmt, args)
      [] st.family = "cublas" -> throw_on_error_cublas(st.code, fmt, args)

\* template <typename T> throw_on_error(T e): throw_on_error(e, "")
throw_on_error_T(st) == throw_on_error(st, << >>, << >>)

-----------------------------------------------------------------------------
(* EnforceNotMet *)

TRACE_STACK_LIMIT == 100

\* the frames of a stack d deep, as the stack walker finds them, innermost
\* first
Stack(d) == [i \in 1..d |-> "frame " \o ToString(i)]

\* backtrace(call_stack, size): fills at most size frames, returns how many
backtrace(stack, size) == Min(Len(stack), size)

\* for (int i = 0; i < sz; ++i) sout << line[i] << std::endl;
RECURSIVE WriteFrames(_, _, _)
WriteFrames(lines, i, sz) ==
    IF i < sz
    THEN << lines[i + 1], "\n" >> \o WriteFrames(lines, i + 1, sz)
    ELSE << >>

\* EnforceNotMet with every frame of the stack written, whatever the limit
EnforceNotMet_NoLimit(e, f, l, d) ==
    IF e.std
    THEN [completed |-> TRUE,
          escaped   |-> NoExc,
          err_str_  |->
              Sprintf(<< "%s", " at [", "%s", ":", "%d", "]" >>,
                      << StrArg(e.what), StrArg(<< f >>), IntArg(l) >>)
              \o << "\n" >>
              \o << "Call Stacks: ", "\n" >>
              \o WriteFrames(Stack(d), 0, d)]
    ELSE [completed |-> FALSE, escaped |-> e, err_str_ |-> << >>]

\* EnforceNotMet(e, f, l) on a stack d deep.  The constructor rethrows e and
\* catches const std::exception&: any other exception leaves the constructor.
EnforceNotMet(e, f, l, d) ==
    IF e.std
    THEN LET sz == backtrace(Stack(d), TRACE_STACK_LIMIT)
         IN  [completed |-> TRUE,
              escaped   |-> NoExc,
              err_str_  |->
                  Sprintf(<< "%s", " at [", "%s", ":", "%d", "]" >>,
                          << StrArg(e.what), StrArg(<< f >>), IntArg(l) >>)
                  \o << "\n" >>
                  \o << "Call Stacks: ", "\n" >>
                  \o WriteFrames(Stack(d), 0, sz)]
    ELSE [completed |-> FALSE, escaped |-> e, err_str_ |-> << >>]

\* what leaves a throw-expression "throw EnforceNotMet(e, f, l)"
Throw(e, f, l, d) ==
    LET x == EnforceNotMet(e, f, l, d)
    IN  [outcome  |-> "raised",
         inner    |-> e,
         leaving  |-> IF x.completed THEN "EnforceNotMet" ELSE x.escaped.type,
         err_str_ |-> x.err_str_]

Returned ==
    [outcome |-> "returned", inner |-> NoExc, leaving |-> "none", err_str_ |-> << >>]

-----------------------------------------------------------------------------
(* PADDLE_THROW and PADDLE_ENFORCE *)

__FILE__ == "enforce_test.cc"

PADDLE_THROW(fmt, args, l, d) ==
    Throw(runtime_error(Sprintf(fmt, args)), __FILE__, l, d)

\* The caller's extra text: absent, or a format with its arguments
NoExtra == [present |-> FALSE, fmt |-> << >>, args |-> << >>]
Extra(fmt, args) == [present |-> TRUE, fmt |-> fmt, args |-> args]

\* PADDLE_ENFORCE without the try block: what throw_on_error raises leaves
\* the macro as it is
PADDLE_ENFORCE_NoCatch(st, ex, aexc, l, d) ==
    LET e == IF aexc # NoExc THEN aexc
             ELSE IF ex.present THEN throw_on_error(st, ex.fmt, ex.args)
             ELSE throw_on_error_T(st)
    IN  IF e = NoExc THEN Returned
        ELSE [outcome |-> "raised", inner |-> e, leaving |-> e.type,
              err_str_ |-> << >>]

\* PADDLE_ENFORCE(st, extra...): aexc is what the evaluation of the
\* arguments raised, inside the try block, before throw_on_error is entered
PADDLE_ENFORCE(st, ex, aexc, l, d) ==
    LET e == IF aexc # NoExc THEN aexc
             ELSE IF ex.present THEN throw_on_error(st, ex.fmt, ex.args)
             ELSE throw_on_error_T(st)
    IN  IF e = NoExc THEN Returned ELSE Throw(e, __FILE__, l, d)

-----------------------------------------------------------------------------
(* The comparison macros *)

IntTypes == {"int8_t", "uint8_t", "int16_t"}

IsSigned(t) == t \in {"int8_t", "int16_t"}
Bits(t) == IF t \in {"int8_t", "uint8_t"} THEN 8 ELSE 16
TypeMin(t) == IF IsSigned(t) THEN -(2 ^ (Bits(t) - 1)) ELSE 0
TypeMax(t) == IF IsSigned(t) THEN 2 ^ (Bits(t) - 1) - 1 ELSE 2 ^ Bits(t) - 1

\* T(v): the conversion of the integer v to the type t (modulo 2^Bits(t))
Convert(t, v) ==
    IF IsSigned(t)
    THEN ((v + 2 ^ (Bits(t) - 1)) % (2 ^ Bits(t))) - 2 ^ (Bits(t) - 1)
    ELSE v % (2 ^ Bits(t))

\* std::is_convertible<T1, T2>::value: every integer type converts
\* implicitly to every other
is_convertible(t1, t2) == t1 \in IntTypes /\ t2 \in IntTypes

\* CompatibleType<T1, T2>::type
CompatibleType(t1, t2) == IF is_convertible(t1, t2) THEN t2 ELSE t1

\* An operand expression: a variable of type "type" holding "val", or the
\* call next(), which returns the caller's counter and increments it
Operand(t, v, e) ==
    [type |-> t, val |-> v, eff |-> FALSE, expr |-> e]
Effectful(t) ==
    [type |-> t, val |-> 0, eff |-> TRUE, expr |-> "next()"]
NoOperand == [type |-> "none", val |-> 0, eff |-> FALSE, expr |-> ""]

\* The places of one expansion of __PADDLE_BINARY_COMPARE where an operand
\* expression is evaluated.  decltype(__VAL) and #__VAL evaluate nothing.
CompareSites == {"a_cmp", "b_cmp", "a_str", "b_str"}

\* The arguments of a call are evaluated in an order the compiler chooses.
Orders ==
    {o \in [1..Cardinality(CompareSites) -> CompareSites] :
        \A i, j \in DOMAIN o : o[i] = o[j] => i = j}

NoEvals ==
    [na |-> 0, nb |-> 0, c0 |-> 0,
     seen |-> [a_cmp |-> 0, b_cmp |-> 0, a_str |-> 0, b_str |-> 0]]

\* evaluate the operand expressions at the places named by order, one after
\* the other, from the caller's counter c
RECURSIVE EvalSites(_, _, _, _, _)
EvalSites(order, a, b, c, ev) ==
    IF order = << >> THEN [ev |-> ev, counter |-> c]
    ELSE LET s   == Head(order)
             isA == s \in {"a_cmp", "a_str"}
             o   == IF isA THEN a ELSE b
             v   == IF o.eff THEN c ELSE o.val
         IN  EvalSites(Tail(order), a, b, IF o.eff THEN c + 1 ELSE c,
                       [ev EXCEPT !.seen[s] = v,
                                  !.na = IF isA THEN @ + 1 ELSE @,
                                  !.nb = IF isA THEN @ ELSE @ + 1])

\* a __CMP b on integers
Rel(op, x, y) ==
    CASE op = "==" -> x = y
      [] op = "!=" -> x # y
      [] op = ">"  -> x > y
      [] op = ">=" -> x >= y
      [] op = "<"  -> x < y
      [] op = "<=" -> x <= y

\* __PADDLE_BINARY_COMPARE with the values rendered only once the comparison
\* has failed
PADDLE_BINARY_COMPARE_Lazy(a, b, cmp, inv, ex, order, c, l, d) ==
    LET e1   == EvalSites(SelectSeq(order, LAMBDA s : s \in {"a_cmp", "b_cmp"}),
                          a, b, c, [NoEvals EXCEPT !.c0 = c])
        T    == CompatibleType(a.type, b.type)
        cond == Rel(cmp, Convert(T, e1.ev.seen.a_cmp), Convert(T, e1.ev.seen.b_cmp))
        e    == IF cond THEN e1
                ELSE EvalSites(SelectSeq(order, LAMBDA s : s \in {"a_str", "b_str"}),
                               a, b, e1.counter, e1.ev)
        seen == e.ev.seen
        fmt  == << "enforce ", "%s", " ", cmp, " ", "%s", " failed, ",
                   "%s", " ", inv, " ", "%s", "\n", "%s" >>
        args == << StrArg(<< a.expr >>), StrArg(<< b.expr >>),
                   StrArg(to_string(seen.a_str)), StrArg(to_string(seen.b_str)),
                   StrArg(Sprintf(<< >> \o ex.fmt, ex.args)) >>
    IN  [res     |-> PADDLE_ENFORCE(Cond("bool", 0, IF cond THEN 1 ELSE 0),
                                    Extra(fmt, args), NoExc, l, d),
         ev      |-> e.ev,
         counter |-> e.counter]

\* __PADDLE_BINARY_COMPARE(a, b, cmp, inv, extra...) at line l on a stack d
\* deep, with the caller's counter at c and the arguments of the call
\* evaluated in the given order
PADDLE_BINARY_COMPARE(a, b, cmp, inv, ex, order, c, l, d) ==
    LET e    == EvalSites(order, a, b, c, [NoEvals EXCEPT !.c0 = c])
        seen == e.ev.seen
        T    == CompatibleType(a.type, b.type)
        cond == Rel(cmp, Convert(T, seen.a_cmp), Convert(T, seen.b_cmp))
        fmt  == << "enforce ", "%s", " ", cmp, " ", "%s", " failed, ",
                   "%s", " ", inv, " ", "%s", "\n", "%s" >>
        args == << StrArg(<< a.expr >>), StrArg(<< b.expr >>),
                   StrArg(to_string(seen.a_str)), StrArg(to_string(seen.b_str)),
                   StrArg(Sprintf(<< >> \o ex.fmt, ex.args)) >>
    IN  [res     |-> PADDLE_ENFORCE(Cond("bool", 0, IF cond THEN 1 ELSE 0),
                                    Extra(fmt, args), NoExc, l, d),
         ev      |-> e.ev,
         counter |-> e.counter]

CompareKinds == {"EQ", "NE", "GT", "GE", "LT", "LE"}

\* the comparison macros with PADDLE_ENFORCE_GE expanding to > and <=
PADDLE_ENFORCE_CMP_GEasGT(kind, a, b, ex, order, c, l, d) ==
    CASE kind = "EQ" -> PADDLE_BINARY_COMPARE(a, b, "==", "!=", ex, order, c, l, d)
      [] kind = "NE" -> PADDLE_BINARY_COMPARE(a, b, "!=", "==", ex, order, c, l, d)
      [] kind = "GT" -> PADDLE_BINARY_COMPARE(a, b, ">", "<=", ex, order, c, l, d)
      [] kind = "GE" -> PADDLE_BINARY_COMPARE(a, b, ">", "<=", ex, order, c, l, d)
      [] kind = "LT" -> PADDLE_BINARY_COMPARE(a, b, "<", ">=", ex, order, c, l, d)
      [] kind = "LE" -> PADDLE_BINARY_COMPARE(a, b, "<=", ">", ex, order, c, l, d)

\* PADDLE_ENFORCE_EQ, _NE, _GT, _GE, _LT, _LE
PADDLE_ENFORCE_CMP(kind, a, b, ex, order, c, l, d) ==
    CASE kind = "EQ" -> PADDLE_BINARY_COMPARE(a, b, "==", "!=", ex, order, c, l, d)
      [] kind = "NE" -> PADDLE_BINARY_COMPARE(a, b, "!=", "==", ex, order, c, l, d)
      [] kind = "GT" -> PADDLE_BINARY_COMPARE(a, b, ">", "<=", ex, order, c, l, d)
      [] kind = "GE" -> PADDLE_BINARY_COMPARE(a, b, ">=", "<", ex, order, c, l, d)
      [] kind = "LT" -> PADDLE_BINARY_COMPARE(a, b, "<", ">=", ex, order, c, l, d)
      [] kind = "LE" -> PADDLE_BINARY_COMPARE(a, b, "<=", ">", ex, order, c, l, d)

-----------------------------------------------------------------------------
(* The inputs of the calls *)

Lines == 1..MaxLine
ShallowDepths == 1..MaxShallow
Depths == ShallowDepths \cup (TRACE_STACK_LIMIT - 1)..(TRACE_STACK_LIMIT + MaxOver)

Formats ==
    {Extra(<< >>, << >>), Extra(<< "msg" >>, << >>),
     Extra(<< "%s" >>, << StrArg(<< "oops" >>) >>)}
    \cup {Extra(<< "ctx ", "%d" >>, << IntArg(n) >>) : n \in 0..MaxArg}
Extras == {NoExtra} \cup Formats

Small == (-MaxSmall)..MaxSmall

IntConds ==
    {Cond("bool", 0, r) : r \in {0, 1}}
    \cup {Cond("int", 0, r) : r \in Small}
    \cup {Cond("int64_t", q, r) : q \in {-1, 0, 1}, r \in Small}

NoStat == Status("none", "none")

\* the values a variable of type t is drawn from: the ends of the ranges of
\* the types, and the values near zero
Values(t) ==
    ({TypeMin(u) : u \in IntTypes} \cup {TypeMax(u) : u \in IntTypes} \cup Small)
    \cap TypeMin(t)..TypeMax(t)

\* the variables an operand expression e may name
Operands(e) == UNION {{Operand(t, v, e) : v \in Values(t)} : t \in IntTypes}

-----------------------------------------------------------------------------
(* The state machine: one action per macro *)

Init ==
    /\ macro = "none"
    /\ stat = NoStat
    /\ extra = NoExtra
    /\ argExc = NoExc
    /\ lhs = NoOperand
    /\ rhs = NoOperand
    /\ depth = 1
    /\ line = 1
    /\ counter = 0
    /\ evals = NoEvals
    /\ inner = NoExc
    /\ outcome = "none"
    /\ leaving = "none"
    /\ err_str_ = << >>

Result(r) ==
    /\ inner' = r.inner
    /\ outcome' = r.outcome
    /\ leaving' = r.leaving
    /\ err_str_' = r.err_str_

\* The header keeps nothing from one call to the next, so a behaviour is one
\* call from the state before it: Idle is the caller's position before the
\* call.
Idle == outcome = "none"

\* PADDLE_ENFORCE(st, extra...) for a status st of the given family
EnforceCall(st) ==
    \E ex \in Extras, ax \in ArgOutcomes, l \in Lines, d \in Depths :
        /\ macro' = "PADDLE_ENFORCE"
        /\ stat' = st
        /\ extra' = ex
        /\ argExc' = ax
        /\ lhs' = NoOperand
        /\ rhs' = NoOperand
        /\ depth' = d
        /\ line' = l
        /\ counter' = 0
        /\ evals' = NoEvals
        /\ Result(PADDLE_ENFORCE(st, ex, ax, l, d))

Enforce ==
    /\ Idle
    /\ \E c \in IntConds : EnforceCall(c)

EnforceCuda ==
    /\ Idle
    /\ \E c \in CudaCodes : EnforceCall(Status("cuda", c))

EnforceCurand ==
    /\ Idle
    /\ \E c \in CurandCodes : EnforceCall(Status("curand", c))

EnforceCudnn ==
    /\ Idle
    /\ \E c \in CudnnCodes : EnforceCall(Status("cudnn", c))

EnforceCublas ==
    /\ Idle
    /\ \E c \in CublasCodes : EnforceCall(Status("cublas", c))

\* PADDLE_THROW(fmt, args...)
ThrowCall ==
    /\ Idle
    /\ \E ex \in Formats, l \in Lines, d \in Depths :
        /\ macro' = "PADDLE_THROW"
        /\ stat' = NoStat
        /\ extra' = ex
        /\ argExc' = NoExc
        /\ lhs' = NoOperand
        /\ rhs' = NoOperand
        /\ depth' = d
        /\ line' = l
        /\ counter' = 0
        /\ evals' = NoEvals
        /\ Result(PADDLE_THROW(ex.fmt, ex.args, l, d))

\* PADDLE_ENFORCE_xx(a, b, extra...) with the caller's counter at c
CompareCall(kind, a, b, ex, order, c) ==
    \E l \in Lines, d \in ShallowDepths :
        LET r == PADDLE_ENFORCE_CMP(kind, a, b, ex, order, c, l, d)
        IN  /\ macro' = "PADDLE_ENFORCE_" \o kind
            /\ stat' = NoStat
            /\ extra' = ex
            /\ argExc' = NoExc
            /\ lhs' = a
            /\ rhs' = b
            /\ depth' = d
            /\ line' = l
            /\ counter' = r.counter
            /\ evals' = r.ev
            /\ Result(r.res)

\* the order in which the operands are written in the macro's expansion
SourceOrder == << "a_cmp", "b_cmp", "a_str", "b_str" >>

\* A comparison of two variables.  Their evaluation has no effect, so the
\* order of evaluation does not show and the order of the source stands
\* for all of them.
Compare ==
    /\ Idle
    /\ \E kind \in CompareKinds, a \in Operands("a"), b \in Operands("b"),
          ex \in Extras :
           CompareCall(kind, a, b, ex, SourceOrder, 0)

\* A comparison where an operand is the call next(), in every order of
\* evaluation.
NextOperands(e) == Operands(e) \cup {Effectful("int16_t")}

CompareNext ==
    /\ Idle
    /\ \E kind \in CompareKinds, a \in NextOperands("a"), b \in NextOperands("b"),
          order \in Orders, c \in 0..(MaxCounter - Cardinality(CompareSites)) :
           /\ a.eff \/ b.eff
           /\ CompareCall(kind, a, b, NoExtra, order, c)

Next ==
    \/ Enforce
    \/ EnforceCuda
    \/ EnforceCurand
    \/ EnforceCudnn
    \/ EnforceCublas
    \/ ThrowCall
    \/ Compare
    \/ CompareNext

Spec == Init /\ [][Next]_vars

-----------------------------------------------------------------------------
(* Vocabulary of the properties *)

CompareMacros == {"PADDLE_ENFORCE_" \o k : k \in CompareKinds}

IsCompare == macro \in CompareMacros

\* a comparison of two variables
IsPureCompare == IsCompare /\ ~lhs.eff /\ ~rhs.eff

\* a status check that was entered: no argument raised before it
IsStatusCheck == macro = "PADDLE_ENFORCE" /\ argExc = NoExc

\* the caller's extra text, formatted; empty when there is none
CallerText == IF extra.present THEN Sprintf(extra.fmt, extra.args) ELSE << >>

\* the relation a comparison macro checks, on mathematical integers
Holds(m, x, y) ==
    CASE m = "PADDLE_ENFORCE_EQ" -> x = y
      [] m = "PADDLE_ENFORCE_NE" -> x # y
      [] m = "PADDLE_ENFORCE_GT" -> x > y
      [] m = "PADDLE_ENFORCE_GE" -> x >= y
      [] m = "PADDLE_ENFORCE_LT" -> x < y
      [] m = "PADDLE_ENFORCE_LE" -> x <= y

\* the operator a comparison macro checks, and its negation, as printed
OpText(m) ==
    CASE m = "PADDLE_ENFORCE_EQ" -> "=="
      [] m = "PADDLE_ENFORCE_NE" -> "!="
      [] m = "PADDLE_ENFORCE_GT" -> ">"
      [] m = "PADDLE_ENFORCE_GE" -> ">="
      [] m = "PADDLE_ENFORCE_LT" -> "<"
      [] m = "PADDLE_ENFORCE_LE" -> "<="

InverseText(m) ==
    CASE m = "PADDLE_ENFORCE_EQ" -> "!="
      [] m = "PADDLE_ENFORCE_NE" -> "=="
      [] m = "PADDLE_ENFORCE_GT" -> "<="
      [] m = "PADDLE_ENFORCE_GE" -> "<"
      [] m = "PADDLE_ENFORCE_LT" -> ">="
      [] m = "PADDLE_ENFORCE_LE" -> ">"

\* the integer a printed value stands for
Printable == UNION {Values(t) : t \in IntTypes} \cup 0..MaxCounter
ParseInt(s) == CHOOSE n \in Printable : ToString(n) = s

\* the text p is the leading text of the text s
IsPrefix(p, s) == Len(p) <= Len(s) /\ SubSeq(s, 1, Len(p)) = p

\* the text s occurs in the text w
Contains(w, s) ==
    \E i \in 0..(Len(w) - Len(s)) : SubSeq(w, i + 1, i + Len(s)) = s

-----------------------------------------------------------------------------
(* C1 *)

\* C1: a condition of boolean or integral type passed to PADDLE_ENFORCE,
\* with or without extra text, returns normally when its value is not zero;
\* when it is zero the call raises and the description of the failure is the
\* formatted extra text (empty when there is none).
C1_ConditionNonZeroReturns ==
    (IsStatusCheck /\ stat.family = "int") =>
        /\ IsNonZero(stat) => outcome = "returned"
        /\ ~IsNonZero(stat) => (outcome = "raised" /\ inner.what = CallerText)

-----------------------------------------------------------------------------
(* C2 *)

\* C2: for each comparison kind and all pairs of operands of the same
\* integer type, the check returns normally exactly when the relation holds
\* between the operands, and raises otherwise.
C2_SameTypeCompare ==
    (IsPureCompare /\ lhs.type = rhs.type) =>
        /\ outcome \in {"returned", "raised"}
        /\ outcome = "returned" <=> Holds(macro, lhs.val, rhs.val)

\* a < b, and the GE check raised
C2_Witness ==
    /\ macro = "PADDLE_ENFORCE_GE"
    /\ ~lhs.eff /\ ~rhs.eff
    /\ lhs.type = rhs.type
    /\ lhs.val < rhs.val
    /\ outcome = "raised"

-----------------------------------------------------------------------------
(* C3 *)

\* C3: every failure raised by a status check of any family, by the
\* condition of a comparison or by PADDLE_THROW leaves the macro as an
\* EnforceNotMet: the type raised inside never reaches the caller, and its
\* description is the leading text of the EnforceNotMet message.
C3_OnlyEnforceNotMet ==
    (outcome = "raised" /\ argExc = NoExc) =>
        /\ leaving = "EnforceNotMet"
        /\ inner.type # leaving
        /\ IsPrefix(inner.what, err_str_)

\* a driver error code raised a thrust::system_error, and an EnforceNotMet
\* left the macro
C3_Witness ==
    /\ IsStatusCheck
    /\ stat.family = "cuda"
    /\ inner.type = "thrust::system_error"
    /\ outcome = "raised"
    /\ leaving = "EnforceNotMet"

-----------------------------------------------------------------------------
(* C4 *)

\* C4: the description of every failed comparison is
\* "enforce <a-expr> <op> <b-expr> failed, <a-value> <inverse-op> <b-value>",
\* a newline and the extra text, where the values are the operands after
\* coercion to the common type and the printed relation is true of the
\* printed values.
C4_MessageStatesTrueRelation ==
    (IsPureCompare /\ outcome = "raised") =>
        LET T == CompatibleType(lhs.type, rhs.type)
            w == inner.what
        IN  /\ w = << "enforce ", lhs.expr, " ", OpText(macro), " ", rhs.expr,
                      " failed, ", ToString(Convert(T, lhs.val)), " ",
                      InverseText(macro), " ", ToString(Convert(T, rhs.val)),
                      "\n" >> \o CallerText
            /\ ~Holds(macro, ParseInt(w[8]), ParseInt(w[12]))

-----------------------------------------------------------------------------
(* C5 *)

\* C5: a comparison of operands of different integer types passes exactly
\* when the relation holds between the mathematical values of the operands.
C5_MixedTypeCompare ==
    (IsPureCompare /\ lhs.type # rhs.type) =>
        (outcome = "returned" <=> Holds(macro, lhs.val, rhs.val))

-----------------------------------------------------------------------------
(* C6 *)

\* C6: for a cublas status, the success code returns normally whatever the
\* extra arguments; each recognized failure code raises with the one phrase
\* of that code followed by the caller's text; distinct recognized codes
\* have distinct phrases; a failure code that is not recognized raises with
\* the caller's text alone.
C6_CublasPhrases ==
    (IsStatusCheck /\ stat.family = "cublas") =>
        /\ stat.code = CUBLAS_STATUS_SUCCESS => outcome = "returned"
        /\ stat.code \in CublasRecognized =>
              /\ outcome = "raised"
              /\ cublas_err(stat.code) # << >>
              /\ inner.what = cublas_err(stat.code) \o CallerText
              /\ \A c \in CublasRecognized \ {stat.code} :
                     cublas_err(c) # cublas_err(stat.code)
        /\ stat.code \in CublasOther =>
              /\ outcome = "raised"
              /\ inner.what = CallerText

\* a recognized failure code raised with its phrase before the caller's text
C6_Witness ==
    /\ IsStatusCheck
    /\ stat.code = "CUBLAS_STATUS_ALLOC_FAILED"
    /\ extra.present /\ CallerText # << >>
    /\ outcome = "raised"
    /\ inner.what = << "CUBLAS: alloc failed, " >> \o CallerText

-----------------------------------------------------------------------------
(* C7 *)

\* C7: when the failure inside PADDLE_ENFORCE is not a standard exception
\* (one raised while the arguments are evaluated), the construction of the
\* EnforceNotMet completes and the exception that leaves the macro is the
\* EnforceNotMet.
C7_ConstructionNeverRaises ==
    (macro = "PADDLE_ENFORCE" /\ argExc # NoExc /\ ~argExc.std) =>
        (outcome = "raised" /\ leaving = "EnforceNotMet")

-----------------------------------------------------------------------------
(* C8 *)

\* the phrase that identifies the failure of a status of a library
Phrase(st) ==
    CASE st.family = "cuda"   -> cuda_message(st.code)
      [] st.family = "curand" -> cuda_message("cudaErrorLaunchFailure")
      [] st.family = "cudnn"  -> cudnnGetErrorString(st.code)
      [] st.family = "cublas" -> cublas_err(st.code)
      [] OTHER                -> << >>

\* the families and codes whose failure has a phrase
HasPhrase(st) ==
    \/ st.family \in {"cuda", "curand", "cudnn"}
    \/ st.family = "cublas" /\ st.code \in CublasRecognized

\* C8 as claimed: the description of every triggered enforcement, of every
\* family and also without extra text, is not empty.
C8_DescriptionNeverEmpty ==
    (IsStatusCheck /\ outcome = "raised") => inner.what # << >>

\* C8 as amended: the description of a triggered enforcement of a driver,
\* random-generator or neural-primitives status, or of a recognized cublas
\* failure code, is not empty and contains the phrase of the failure, also
\* without extra text; the description of a failed boolean or integral
\* condition, and of a cublas code that is not recognized, is the caller's
\* text alone, which is empty in the single-argument form.
C8_PhraseWhereMapped ==
    (IsStatusCheck /\ outcome = "raised") =>
        /\ HasPhrase(stat) =>
              /\ inner.what # << >>
              /\ Phrase(stat) # << >>
              /\ Contains(inner.what, Phrase(stat))
        /\ ~HasPhrase(stat) => inner.what = CallerText
        /\ (~HasPhrase(stat) /\ ~extra.present) => inner.what = << >>

\* the single-argument form raised for a recognized cublas code, and the
\* description is the phrase
C8_Witness ==
    /\ IsStatusCheck
    /\ ~extra.present
    /\ stat.code = "CUBLAS_STATUS_ALLOC_FAILED"
    /\ outcome = "raised"
    /\ inner.what = << "CUBLAS: alloc failed, " >>

-----------------------------------------------------------------------------
(* C9 *)

\* C9: the message of every EnforceNotMet is the inner description,
\* " at [<file>:<line>]", the header line "Call Stacks: ", and one line per
\* captured frame in the order of the stack walker; the number of frame
\* lines is the smaller of the depth of the stack and 100.
C9_MessageAndFrames ==
    leaving = "EnforceNotMet" =>
        LET head == inner.what
                    \o << " at [", __FILE__, ":", ToString(line), "]", "\n",
                          "Call Stacks: ", "\n" >>
            n    == IF depth < TRACE_STACK_LIMIT THEN depth ELSE TRACE_STACK_LIMIT
        IN  /\ IsPrefix(head, err_str_)
            /\ Len(err_str_) = Len(head) + 2 * n
            /\ \A i \in 1..n :
                   /\ err_str_[Len(head) + 2 * i - 1] = Stack(depth)[i]
                   /\ err_str_[Len(head) + 2 * i] = "\n"

\* an EnforceNotMet built on a stack deeper than the limit
C9_Witness ==
    /\ leaving = "EnforceNotMet"
    /\ depth > TRACE_STACK_LIMIT
    /\ Len(err_str_) > 2 * TRACE_STACK_LIMIT

-----------------------------------------------------------------------------
(* C10 *)

NumEff == (IF lhs.eff THEN 1 ELSE 0) + (IF rhs.eff THEN 1 ELSE 0)

\* C10: in every comparison check each operand expression is evaluated
\* exactly twice, on the passing path as on the failing path: an operand
\* with a side effect applies it twice per check.
C10_OperandsEvaluatedTwice ==
    (IsCompare /\ outcome \in {"returned", "raised"}) =>
        /\ evals.na = 2
        /\ evals.nb = 2
        /\ lhs.eff => counter >= evals.c0 + 2
        /\ counter = evals.c0 + 2 * NumEff

\* a check that passed, whose first operand has a side effect: it was
\* evaluated twice, and the value compared is not the value printed
C10_Witness ==
    /\ IsCompare
    /\ outcome = "returned"
    /\ lhs.eff /\ ~rhs.eff
    /\ counter = evals.c0 + 2
    /\ evals.seen.a_cmp # evals.seen.a_str

=============================================================================
